---- MODULE Spec2Model ----
(***************************************************************************)
(* tauri-bridge: the #[tauri_bridge] attribute macro.                      *)
(*                                                                         *)
(* The macro is a pure generator: it parses one function declaration and   *)
(* emits a token stream.  A syn::Type is modelled as a tree (a record per  *)
(* node), a proc_macro2::TokenStream as a sequence of tokens (strings).    *)
(* A lifetime such as 'a and the path separator :: are one token each;     *)
(* a delimited group is written as its opening token, its content and its  *)
(* closing token.                                                          *)
(***************************************************************************)
EXTENDS Integers, Sequences, FiniteSets, TLC

VARIABLES
    step,        \* position of the run in progress
    ty,          \* the syn::Type handed to the type analysis functions
    has_ref,     \* result of has_reference_type(ty)
    rewritten,   \* tokens returned by transform_ref_to_lifetime(ty)
    rewritten2,  \* tokens returned by transforming the re-parsed `rewritten`
    output,      \* the syn::ReturnType of a signature
    user_defined,\* whether the declared return type names a type of the user's crate
    return_type, \* tokens returned by get_return_type
    try_deserialize_expr, \* template returned by generate_try_deserialize_expr
    input,       \* the syn::ItemFn handed to generate_client
    client,      \* the items generate_client returns
    backend,     \* the items generate_backend returns
    scope,       \* the expansions emitted so far into one enclosing module
    invocations, \* the calls made to the generated client functions, in order
    calls,       \* the InvokeCall log of the dispatch boundary
    dispatched,  \* for each logged InvokeCall, the invocation that made it
    frame        \* the generated client function being executed

typeVars == <<ty, has_ref, rewritten, rewritten2>>
decodeVars == <<output, user_defined, return_type, try_deserialize_expr>>
clientVars == <<input, client>>
bridgeVars == <<backend, scope>>
runVars == <<invocations, calls, dispatched, frame>>
vars == <<step, typeVars, decodeVars, clientVars, bridgeVars, runVars>>

(***************************************************************************)
(* Bounds of the model.                                                    *)
(***************************************************************************)
\* nesting depth of the types handed to the type analysis functions
MaxDepth == 3
\* number of parameters of the functions handed to generate_client
MaxParams == 2

(***************************************************************************)
(* syn::Type                                                               *)
(***************************************************************************)
\* Option<Lifetime>::None of a Type::Reference
NoLifetime == ""

Reference(lifetime, mutability, elem) ==
    [variant |-> "Reference", lifetime |-> lifetime, mutability |-> mutability,
     leading_colon |-> FALSE, segments |-> <<>>, elems |-> <<elem>>, len |-> ""]

Path(leading_colon, segments) ==
    [variant |-> "Path", lifetime |-> NoLifetime, mutability |-> FALSE,
     leading_colon |-> leading_colon, segments |-> segments, elems |-> <<>>, len |-> ""]

Tuple(elems) ==
    [variant |-> "Tuple", lifetime |-> NoLifetime, mutability |-> FALSE,
     leading_colon |-> FALSE, segments |-> <<>>, elems |-> elems, len |-> ""]

Array(elem, len) ==
    [variant |-> "Array", lifetime |-> NoLifetime, mutability |-> FALSE,
     leading_colon |-> FALSE, segments |-> <<>>, elems |-> <<elem>>, len |-> len]

Slice(elem) ==
    [variant |-> "Slice", lifetime |-> NoLifetime, mutability |-> FALSE,
     leading_colon |-> FALSE, segments |-> <<>>, elems |-> <<elem>>, len |-> ""]

Paren(elem) ==
    [variant |-> "Paren", lifetime |-> NoLifetime, mutability |-> FALSE,
     leading_colon |-> FALSE, segments |-> <<>>, elems |-> <<elem>>, len |-> ""]

\* Type::Ptr (*const T): one of the variants the functions do not name
Ptr(elem) ==
    [variant |-> "Ptr", lifetime |-> NoLifetime, mutability |-> FALSE,
     leading_colon |-> FALSE, segments |-> <<>>, elems |-> <<elem>>, len |-> ""]

\* syn::GenericArgument: a type, or something else (here a lifetime)
TypeArg(t) == [kind |-> "Type", lifetime |-> NoLifetime, ty |-> <<t>>]
LifetimeArg(l) == [kind |-> "Lifetime", lifetime |-> l, ty |-> <<>>]

\* syn::PathSegment with PathArguments::None
Segment(ident) == [ident |-> ident, angle |-> FALSE, args |-> <<>>]
\* syn::PathSegment with PathArguments::AngleBracketed
GenericSegment(ident, args) == [ident |-> ident, angle |-> TRUE, args |-> args]

Named(ident) == Path(FALSE, <<Segment(ident)>>)

(***************************************************************************)
(* Token streams                                                           *)
(***************************************************************************)
RECURSIVE Concat(_)
\* the concatenation of a sequence of token streams
Concat(streams) ==
    IF streams = <<>> THEN <<>> ELSE Head(streams) \o Concat(Tail(streams))

RECURSIVE Separated(_, _)
\* quote's #(#x),* : the streams with sep between them, none after the last
Separated(streams, sep) ==
    IF streams = <<>> THEN <<>>
    ELSE IF Len(streams) = 1 THEN streams[1]
    ELSE streams[1] \o <<sep>> \o Separated(Tail(streams), sep)

\* Option<Token![mut]>
MutTokens(mutability) == IF mutability THEN <<"mut">> ELSE <<>>

RECURSIVE ToTokens(_)
RECURSIVE ArgTokens(_)
RECURSIVE SegmentTokens(_)
\* syn's ToTokens for Type: the tokens a type was parsed from
ToTokens(t) ==
    CASE t.variant = "Reference" ->
            <<"&">> \o (IF t.lifetime # NoLifetime THEN <<t.lifetime>> ELSE <<>>)
                    \o MutTokens(t.mutability) \o ToTokens(t.elems[1])
      [] t.variant = "Path" ->
            (IF t.leading_colon THEN <<"::">> ELSE <<>>)
            \o Separated([i \in 1..Len(t.segments) |-> SegmentTokens(t.segments[i])], "::")
      [] t.variant = "Tuple" ->
            <<"(">> \o Separated([i \in 1..Len(t.elems) |-> ToTokens(t.elems[i])], ",")
                    \o (IF Len(t.elems) = 1 THEN <<",">> ELSE <<>>) \o <<")">>
      [] t.variant = "Array" -> <<"[">> \o ToTokens(t.elems[1]) \o <<";", t.len, "]">>
      [] t.variant = "Slice" -> <<"[">> \o ToTokens(t.elems[1]) \o <<"]">>
      [] t.variant = "Paren" -> <<"(">> \o ToTokens(t.elems[1]) \o <<")">>
      [] t.variant = "Ptr" -> <<"*", "const">> \o ToTokens(t.elems[1])

\* syn's ToTokens for GenericArgument
ArgTokens(arg) ==
    IF arg.kind = "Type" THEN ToTokens(arg.ty[1]) ELSE <<arg.lifetime>>

\* syn's ToTokens for PathSegment
SegmentTokens(seg) ==
    IF seg.angle
    THEN <<seg.ident, "<">>
         \o Separated([i \in 1..Len(seg.args) |-> ArgTokens(seg.args[i])], ",")
         \o <<">">>
    ELSE <<seg.ident>>

(***************************************************************************)
(* types.rs                                                                *)
(***************************************************************************)
Last(s) == s[Len(s)]

RECURSIVE has_reference_type(_)

\* the Type::Path arm: the generic arguments of every segment are searched
has_reference_path_any_segment(t) ==
    \E s \in 1..Len(t.segments) :
        /\ t.segments[s].angle
        /\ \E i \in 1..Len(t.segments[s].args) :
              /\ t.segments[s].args[i].kind = "Type"
              /\ has_reference_type(t.segments[s].args[i].ty[1])

\* the Type::Path arm of has_reference_type
has_reference_path(t) ==
    IF Len(t.segments) > 0 /\ Last(t.segments).angle
    THEN LET args == Last(t.segments).args
         IN  \E i \in 1..Len(args) :
                IF args[i].kind = "Type"
                THEN has_reference_type(args[i].ty[1])
                ELSE FALSE
    ELSE FALSE

has_reference_type(t) ==
    CASE t.variant = "Reference" -> TRUE
      [] t.variant = "Path" -> has_reference_path(t)
      [] t.variant = "Tuple" -> \E i \in 1..Len(t.elems) : has_reference_type(t.elems[i])
      [] t.variant = "Array" -> has_reference_type(t.elems[1])
      [] t.variant = "Slice" -> has_reference_type(t.elems[1])
      [] t.variant = "Paren" -> has_reference_type(t.elems[1])
      [] OTHER -> FALSE

RECURSIVE transform_ref_to_lifetime(_)

\* the Type::Reference arm with the target of a tagged reference left as written
transform_reference_tagged_verbatim(t) ==
    IF t.lifetime # NoLifetime
    THEN ToTokens(t)
    ELSE <<"&", "'a">> \o MutTokens(t.mutability) \o transform_ref_to_lifetime(t.elems[1])

\* the Type::Reference arm of transform_ref_to_lifetime
transform_reference(t) ==
    LET elem == transform_ref_to_lifetime(t.elems[1])
    IN  IF t.lifetime # NoLifetime
        THEN <<"&", t.lifetime>> \o MutTokens(t.mutability) \o elem
        ELSE <<"&", "'a">> \o MutTokens(t.mutability) \o elem

\* the Type::Path arm of transform_ref_to_lifetime
transform_path(t) ==
    IF Len(t.segments) > 0 /\ Last(t.segments).angle
    THEN LET segment == Last(t.segments)
             path_without_last == SubSeq(t.segments, 1, Len(t.segments) - 1)
             transformed_args ==
                [i \in 1..Len(segment.args) |->
                    IF segment.args[i].kind = "Type"
                    THEN transform_ref_to_lifetime(segment.args[i].ty[1])
                    ELSE ArgTokens(segment.args[i])]
             last == <<segment.ident, "<">>
                     \o Separated(transformed_args, ",") \o <<">">>
             prefix == path_without_last
         IN  IF prefix = <<>>
             THEN last
             ELSE Concat([i \in 1..Len(prefix) |->
                            SegmentTokens(prefix[i]) \o <<"::">>]) \o last
    ELSE ToTokens(t)

\* the Type::Tuple arm of transform_ref_to_lifetime
transform_tuple(t) ==
    <<"(">>
    \o Separated([i \in 1..Len(t.elems) |-> transform_ref_to_lifetime(t.elems[i])], ",")
    \o <<")">>

\* the Type::Paren arm written with a comma after the element
transform_paren_comma(t) ==
    <<"(">> \o transform_ref_to_lifetime(t.elems[1]) \o <<",", ")">>

\* the Type::Paren arm of transform_ref_to_lifetime
transform_paren(t) ==
    <<"(">> \o transform_ref_to_lifetime(t.elems[1]) \o <<")">>

transform_ref_to_lifetime(t) ==
    CASE t.variant = "Reference" -> transform_reference(t)
      [] t.variant = "Path" -> transform_path(t)
      [] t.variant = "Tuple" -> transform_tuple(t)
      [] t.variant = "Array" ->
            <<"[">> \o transform_ref_to_lifetime(t.elems[1]) \o <<";", t.len, "]">>
      [] t.variant = "Slice" -> <<"[">> \o transform_ref_to_lifetime(t.elems[1]) \o <<"]">>
      [] t.variant = "Paren" -> transform_paren(t)
      [] OTHER -> ToTokens(t)

(***************************************************************************)
(* syn's parser for Type: the tree a token stream is read back as          *)
(***************************************************************************)
LifetimeTokens == {"'a", "'static"}

At(toks, i) == IF i <= Len(toks) THEN toks[i] ELSE ""

Drop(toks, n) == SubSeq(toks, n + 1, Len(toks))

RECURSIVE ParseType(_)
RECURSIVE ParseElems(_)
RECURSIVE ParseSegments(_)
RECURSIVE ParseArgs(_)

\* the types up to the closing parenthesis, separated by commas
ParseElems(toks) ==
    IF At(toks, 1) = ")"
    THEN [elems |-> <<>>, rest |-> Drop(toks, 1)]
    ELSE LET e == ParseType(toks)
             more == ParseElems(IF At(e.rest, 1) = "," THEN Drop(e.rest, 1) ELSE e.rest)
         IN  [elems |-> <<e.ty>> \o more.elems, rest |-> more.rest]

\* the generic arguments up to the closing angle bracket
ParseArgs(toks) ==
    IF At(toks, 1) = ">"
    THEN [args |-> <<>>, rest |-> Drop(toks, 1)]
    ELSE LET isLifetime == At(toks, 1) \in LifetimeTokens
             e == ParseType(toks)
             arg == IF isLifetime THEN LifetimeArg(toks[1]) ELSE TypeArg(e.ty)
             after == IF isLifetime THEN Drop(toks, 1) ELSE e.rest
             more == ParseArgs(IF At(after, 1) = "," THEN Drop(after, 1) ELSE after)
         IN  [args |-> <<arg>> \o more.args, rest |-> more.rest]

\* the segments of a path, separated by ::
ParseSegments(toks) ==
    LET generic == At(toks, 2) = "<"
        a == ParseArgs(Drop(toks, 2))
        seg == IF generic THEN GenericSegment(toks[1], a.args) ELSE Segment(toks[1])
        after == IF generic THEN a.rest ELSE Drop(toks, 1)
        more == ParseSegments(Drop(after, 1))
    IN  IF At(after, 1) = "::"
        THEN [segments |-> <<seg>> \o more.segments, rest |-> more.rest]
        ELSE [segments |-> <<seg>>, rest |-> after]

ParseType(toks) ==
    CASE At(toks, 1) = "&" ->
            LET tagged == At(toks, 2) \in LifetimeTokens
                t2 == IF tagged THEN Drop(toks, 2) ELSE Drop(toks, 1)
                mutability == At(t2, 1) = "mut"
                e == ParseType(IF mutability THEN Drop(t2, 1) ELSE t2)
            IN  [ty |-> Reference(IF tagged THEN toks[2] ELSE NoLifetime, mutability, e.ty),
                 rest |-> e.rest]
      [] At(toks, 1) = "*" ->
            LET e == ParseType(Drop(toks, 2))
            IN  [ty |-> Ptr(e.ty), rest |-> e.rest]
      [] At(toks, 1) = "[" ->
            LET e == ParseType(Drop(toks, 1))
            IN  IF At(e.rest, 1) = ";"
                THEN [ty |-> Array(e.ty, e.rest[2]), rest |-> Drop(e.rest, 3)]
                ELSE [ty |-> Slice(e.ty), rest |-> Drop(e.rest, 1)]
      [] At(toks, 1) = "(" ->
            IF At(toks, 2) = ")"
            THEN [ty |-> Tuple(<<>>), rest |-> Drop(toks, 2)]
            ELSE LET e == ParseType(Drop(toks, 1))
                     more == ParseElems(Drop(e.rest, 1))
                 IN  IF At(e.rest, 1) = ")"
                     THEN [ty |-> Paren(e.ty), rest |-> Drop(e.rest, 1)]
                     ELSE [ty |-> Tuple(<<e.ty>> \o more.elems), rest |-> more.rest]
      [] OTHER ->
            LET leading_colon == At(toks, 1) = "::"
                p == ParseSegments(IF leading_colon THEN Drop(toks, 1) ELSE toks)
            IN  [ty |-> Path(leading_colon, p.segments), rest |-> p.rest]

\* syn::parse2::<Type>
Parse(toks) == ParseType(toks).ty

\* the token stream the attribute receives: white space separates tokens and is none
Lex(source) == SelectSeq(source, LAMBDA lexeme : lexeme # " ")

(***************************************************************************)
(* The types the analysis is run on                                        *)
(***************************************************************************)
\* str
LeafTypes == {Named("str")}

\* every way one type is nested one level deeper
Nest(x) ==
    { Reference(NoLifetime, FALSE, x),                       \* &x
      Reference(NoLifetime, TRUE, x),                        \* &mut x
      Reference("'static", FALSE, x),                        \* &'static x
      Path(FALSE, <<GenericSegment("Cow", <<LifetimeArg("'static"), TypeArg(x)>>)>>),
      Path(FALSE, <<GenericSegment("Gen", <<TypeArg(x)>>), Segment("Item")>>),
      Path(FALSE, <<GenericSegment("Gen", <<TypeArg(x)>>),
                    GenericSegment("Out", <<TypeArg(Named("u8"))>>)>>),
      Path(TRUE, <<Segment("std"), GenericSegment("Vec", <<TypeArg(x)>>)>>), \* ::std::Vec<x>
      Tuple(<<x>>),                                          \* (x,)
      Tuple(<<Tuple(<<>>), x>>),                             \* ((), x)
      Array(x, "4"),                                         \* [x; 4]
      Slice(x),                                              \* [x]
      Paren(x),                                              \* (x)
      Ptr(x) }                                               \* *const x

RECURSIVE TypesUpTo(_)
TypesUpTo(d) ==
    IF d = 0 THEN LeafTypes
    ELSE LET S == TypesUpTo(d - 1) IN S \cup UNION {Nest(x) : x \in S}

NoTokens == <<>>

(***************************************************************************)
(* types.rs: the return type and its decode template                       *)
(***************************************************************************)
\* syn::ReturnType
ReturnDefault == [kind |-> "Default", ty |-> <<>>]
ReturnDeclared(t) == [kind |-> "Type", ty |-> <<t>>]

\* get_return_type writing nothing for a signature without a return type
get_return_type_default_empty(sig_output) ==
    IF sig_output.kind = "Default" THEN <<>> ELSE ToTokens(sig_output.ty[1])

get_return_type(sig_output) ==
    IF sig_output.kind = "Default" THEN <<"(", ")">> ELSE ToTokens(sig_output.ty[1])

RECURSIVE to_string(_)
\* TokenStream::to_string: the tokens separated by a space, none inside a delimiter
to_string(toks) ==
    IF toks = <<>> THEN ""
    ELSE IF Len(toks) = 1 THEN toks[1]
    ELSE IF toks[1] \in {"(", "["} \/ toks[2] \in {")", "]"}
         THEN toks[1] \o to_string(Tail(toks))
         ELSE toks[1] \o " " \o to_string(Tail(toks))

StringAccessor ==
    [expr |-> "result.as_string().ok_or_else", message |-> "Expected string response"]
OkUnit ==
    [expr |-> "Ok(())", message |-> ""]
BoolAccessor ==
    [expr |-> "result.as_bool().ok_or_else", message |-> "Expected bool response"]
NumberDecode ==
    [expr |-> "serde_wasm_bindgen::from_value(result).map_err",
     message |-> "Failed to deserialize number: {}"]
ResponseDecode ==
    [expr |-> "serde_wasm_bindgen::from_value(result).map_err",
     message |-> "Failed to deserialize response: {}"]

\* the names of the numeric branch
NumericNames == {"i32", "i64", "u32", "u64", "f32", "f64", "isize", "usize"}

\* syn's parser for ReturnType: nothing, or an arrow and a type
parse_ReturnType(toks) ==
    IF toks = <<>> THEN ReturnDefault ELSE ReturnDeclared(Parse(Drop(toks, 1)))

\* the dispatch comparing the unit type with the text "( )"
generate_try_deserialize_expr_spaced_unit(tokens) ==
    LET type_str == to_string(tokens)
    IN  IF type_str = "String" THEN StringAccessor
        ELSE IF type_str = "( )" THEN OkUnit
        ELSE IF type_str = "bool" THEN BoolAccessor
        ELSE IF type_str \in NumericNames THEN NumberDecode
        ELSE ResponseDecode

\* the dispatch with the bool branch left out
generate_try_deserialize_expr_without_bool(tokens) ==
    LET type_str == to_string(tokens)
    IN  IF type_str = "String" THEN StringAccessor
        ELSE IF type_str = "()" THEN OkUnit
        ELSE IF type_str \in NumericNames THEN NumberDecode
        ELSE ResponseDecode

generate_try_deserialize_expr(tokens) ==
    LET type_str == to_string(tokens)
    IN  IF type_str = "String" THEN StringAccessor
        ELSE IF type_str = "()" THEN OkUnit
        ELSE IF type_str = "bool" THEN BoolAccessor
        ELSE IF type_str \in NumericNames THEN NumberDecode
        ELSE ResponseDecode

(***************************************************************************)
(* client.rs                                                               *)
(***************************************************************************)
\* syn::Pat of a parameter
PatIdent(ident) == [kind |-> "Ident", ident |-> ident]
PatWild == [kind |-> "Wild", ident |-> "_"]

\* syn's ToTokens for Pat
PatTokens(pat) == <<pat.ident>>

\* syn::FnArg::Typed
Typed(pat, t) == [kind |-> "Typed", pat |-> pat, ty |-> t]

LowerLetters ==
    <<"a", "b", "c", "d", "e", "f", "g", "h", "i", "j", "k", "l", "m",
      "n", "o", "p", "q", "r", "s", "t", "u", "v", "w", "x", "y", "z">>
UpperLetters ==
    <<"A", "B", "C", "D", "E", "F", "G", "H", "I", "J", "K", "L", "M",
      "N", "O", "P", "Q", "R", "S", "T", "U", "V", "W", "X", "Y", "Z">>

IsLower(c) == \E i \in 1..Len(LowerLetters) : LowerLetters[i] = c
IsUpper(c) == \E i \in 1..Len(UpperLetters) : UpperLetters[i] = c
ToUpper(c) ==
    IF IsLower(c) THEN UpperLetters[CHOOSE i \in 1..Len(LowerLetters) : LowerLetters[i] = c]
    ELSE c
ToLower(c) ==
    IF IsUpper(c) THEN LowerLetters[CHOOSE i \in 1..Len(UpperLetters) : UpperLetters[i] = c]
    ELSE c

RECURSIVE Str(_)
\* the string spelled by a sequence of characters
Str(chars) == IF chars = <<>> THEN "" ELSE Head(chars) \o Str(Tail(chars))

RECURSIVE PascalFrom(_, _, _)
\* convert_case: a word starts at the beginning, after an underscore and at an
\* upper-case letter that follows a lower-case one; words are capitalized and joined
PascalFrom(chars, wordStart, prev) ==
    IF chars = <<>> THEN <<>>
    ELSE LET c == Head(chars)
         IN  IF c = "_" THEN PascalFrom(Tail(chars), TRUE, c)
             ELSE IF wordStart \/ (IsLower(prev) /\ IsUpper(c))
                  THEN <<ToUpper(c)>> \o PascalFrom(Tail(chars), FALSE, c)
                  ELSE <<ToLower(c)>> \o PascalFrom(Tail(chars), FALSE, c)

\* fn_name_str.to_case(Case::Pascal)
to_case_Pascal(chars) == Str(PascalFrom(chars, TRUE, ""))

Digits == {"0", "1", "2", "3", "4", "5", "6", "7", "8", "9"}

\* whether a text is an identifier: syn::Ident::new panics on any other text
IsIdent(chars) ==
    /\ chars # <<>>
    /\ chars # <<"_">>
    /\ IsLower(chars[1]) \/ IsUpper(chars[1]) \/ chars[1] = "_"
    /\ \A i \in 1..Len(chars) :
          IsLower(chars[i]) \/ IsUpper(chars[i]) \/ chars[i] \in Digits \/ chars[i] = "_"

\* the texts generate_client hands to syn::Ident::new
client_idents(fn) ==
    <<PascalFrom(fn.ident, TRUE, "") \o <<"A", "r", "g", "s">>,
      <<"t", "r", "y", "_">> \o fn.ident,
      fn.ident>>

\* generate_client panics when one of them is not an identifier
generate_client_panics(fn) ==
    \E i \in 1..Len(client_idents(fn)) : ~IsIdent(client_idents(fn)[i])

\* the record named with the function name as it is written
args_struct_name_verbatim(fn) == Str(fn.ident) \o "Args"

args_struct_name(fn) == to_case_Pascal(fn.ident) \o "Args"

try_fn_name(fn) == "try_" \o Str(fn.ident)

fn_name_ident(fn) == Str(fn.ident)

\* the typed parameters of the signature (the declarations are free functions: none
\* has a `self` receiver, so every parameter is FnArg::Typed)
args(fn) == SelectSeq(fn.inputs, LAMBDA arg : arg.kind = "Typed")

has_args(fn) == args(fn) # <<>>

\* needs_lifetime that looks at the first parameter only
needs_lifetime_first(fn) == has_args(fn) /\ has_reference_type(args(fn)[1].ty)

needs_lifetime(fn) == \E i \in 1..Len(args(fn)) : has_reference_type(args(fn)[i].ty)

\* the type of a field or parameter, rewritten whether or not a lifetime is needed
field_type_always_rewritten(fn, pat_type) == transform_ref_to_lifetime(pat_type.ty)

\* the type of a field or parameter
field_type(fn, pat_type) ==
    IF needs_lifetime(fn)
    THEN transform_ref_to_lifetime(pat_type.ty)
    ELSE ToTokens(pat_type.ty)

\* struct_fields collected in reverse
struct_fields_reversed(fn) ==
    [i \in 1..Len(args(fn)) |->
        LET pat_type == args(fn)[Len(args(fn)) + 1 - i]
        IN  PatTokens(pat_type.pat) \o <<":">> \o field_type(fn, pat_type)]

struct_fields(fn) ==
    [i \in 1..Len(args(fn)) |->
        PatTokens(args(fn)[i].pat) \o <<":">> \o field_type(fn, args(fn)[i])]

fn_params(fn) ==
    [i \in 1..Len(args(fn)) |->
        PatTokens(args(fn)[i].pat) \o <<":">> \o field_type(fn, args(fn)[i])]

\* the identifiers of the parameters whose pattern is a plain identifier
IdentPats(fn) ==
    LET ident == SelectSeq(args(fn), LAMBDA pat_type : pat_type.pat.kind = "Ident")
    IN  [i \in 1..Len(ident) |-> <<ident[i].pat.ident>>]

field_inits(fn) == IdentPats(fn)

\* the arguments forwarded last first
arg_forwards_reversed(fn) ==
    [i \in 1..Len(IdentPats(fn)) |-> IdentPats(fn)[Len(IdentPats(fn)) + 1 - i]]

arg_forwards(fn) == IdentPats(fn)

WasmOnly == "target_arch = \"wasm32\""

struct_def(fn) ==
    IF has_args(fn)
    THEN <<[cfg |-> WasmOnly, vis |-> "",
            derive |-> <<"serde::Serialize", "serde::Deserialize">>,
            ident |-> args_struct_name(fn),
            generics |-> IF needs_lifetime(fn) THEN <<"'a">> ELSE <<>>,
            fields |-> struct_fields(fn)]>>
    ELSE <<>>

\* the call dispatched under the name of the fallible function
try_invoke_call_own_name(fn) ==
    [value |-> IF has_args(fn)
               THEN [kind |-> "struct", ident |-> args_struct_name(fn),
                     inits |-> field_inits(fn)]
               ELSE [kind |-> "serde_json::Value::Null", ident |-> "", inits |-> <<>>],
     encode_error |-> "Failed to serialize arguments: {}",
     invoke |-> try_fn_name(fn)]

try_invoke_call(fn) ==
    [value |-> IF has_args(fn)
               THEN [kind |-> "struct", ident |-> args_struct_name(fn),
                     inits |-> field_inits(fn)]
               ELSE [kind |-> "serde_json::Value::Null", ident |-> "", inits |-> <<>>],
     encode_error |-> "Failed to serialize arguments: {}",
     invoke |-> Str(fn.ident)]

\* a declared Result left as it is instead of being wrapped
try_fn_output_flattened(return_type_tokens) ==
    IF return_type_tokens # <<>> /\ return_type_tokens[1] = "Result"
    THEN return_type_tokens
    ELSE <<"Result", "<">> \o return_type_tokens \o <<",", "String", ">">>

\* the return type written for the fallible function: Result<#return_type, String>
try_fn_output(return_type_tokens) ==
    <<"Result", "<">> \o return_type_tokens \o <<",", "String", ">">>

client_fns(fn) ==
    LET generics == IF needs_lifetime(fn) THEN <<"'a">> ELSE <<>>
        ret == get_return_type(fn.output)
    IN  <<[cfg |-> WasmOnly, vis |-> fn.vis, asyncness |-> TRUE,
           ident |-> try_fn_name(fn), generics |-> generics,
           inputs |-> fn_params(fn),
           output |-> try_fn_output(ret),
           body |-> [call |-> try_invoke_call(fn),
                     decode |-> generate_try_deserialize_expr(ret)]],
          [cfg |-> WasmOnly, vis |-> fn.vis, asyncness |-> TRUE,
           ident |-> fn_name_ident(fn), generics |-> generics,
           inputs |-> fn_params(fn),
           output |-> ret,
           body |-> [callee |-> try_fn_name(fn), forwards |-> arg_forwards(fn),
                     unwrap |-> TRUE]]>>

generate_client(fn) == [struct_def |-> struct_def(fn), client_fns |-> client_fns(fn)]

(***************************************************************************)
(* backend.rs                                                              *)
(***************************************************************************)
\* the server artifact gated on the feature alone
BackendFeatureOnly == "feature = \"backend\""

BackendOnly == "all(feature = \"backend\", not(target_arch = \"wasm32\"))"

\* the texts generate_backend hands to syn::Ident::new
backend_idents(fn) ==
    <<<<"_", "_", "t", "a", "u", "r", "i", "_", "c", "m", "d", "_">> \o fn.ident, fn.ident>>

\* generate_backend panics when one of them is not an identifier
generate_backend_panics(fn) ==
    \E i \in 1..Len(backend_idents(fn)) : ~IsIdent(backend_idents(fn)[i])

\* the module named like the function
mod_name_unprefixed(fn) == Str(fn.ident)

mod_name(fn) == "__tauri_cmd_" \o Str(fn.ident)

fn_name_new(fn) == Str(fn.ident)

\* syn's ToTokens for the signature's inputs and for its ReturnType
InputsTokens(fn) ==
    [i \in 1..Len(fn.inputs) |->
        PatTokens(fn.inputs[i].pat) \o <<":">> \o ToTokens(fn.inputs[i].ty)]

OutputTokens(fn) ==
    IF fn.output.kind = "Default" THEN <<>> ELSE <<"->">> \o ToTokens(fn.output.ty[1])

\* the original attributes written below #[tauri::command]
command_attrs_after_command(fn) == <<"#[tauri::command]">> \o fn.attrs

\* #(#attrs)* #[tauri::command]
command_attrs(fn) == fn.attrs \o <<"#[tauri::command]">>

\* the command function of the module, always declared async
command_fn_always_async(fn) ==
    [attrs |-> command_attrs(fn),
     vis |-> fn.vis, asyncness |-> TRUE, ident |-> fn_name_new(fn),
     generics |-> fn.generics, inputs |-> InputsTokens(fn), output |-> OutputTokens(fn),
     where_clause |-> fn.where_clause, block |-> fn.block]

\* the command function re-emitted inside the module
command_fn(fn) ==
    [attrs |-> command_attrs(fn),
     vis |-> fn.vis, asyncness |-> fn.asyncness, ident |-> fn_name_new(fn),
     generics |-> fn.generics, inputs |-> InputsTokens(fn), output |-> OutputTokens(fn),
     where_clause |-> fn.where_clause, block |-> fn.block]

\* the re-export always public
generate_backend_pub_use(fn) ==
    [module |-> [cfg |-> BackendOnly, ident |-> mod_name(fn), uses |-> <<"super::*">>,
                 items |-> <<command_fn(fn)>>],
     reexport |-> [cfg |-> BackendOnly, vis |-> "pub",
                   path |-> <<mod_name(fn), fn_name_new(fn)>>]]

generate_backend(fn) ==
    [module |-> [cfg |-> BackendOnly, ident |-> mod_name(fn), uses |-> <<"super::*">>,
                 items |-> <<command_fn(fn)>>],
     reexport |-> [cfg |-> BackendOnly, vis |-> fn.vis,
                   path |-> <<mod_name(fn), fn_name_new(fn)>>]]

(***************************************************************************)
(* The names the artifacts declare in the module they are emitted into:    *)
(* a mod and a struct are names of types, a fn and a `use` of a fn are     *)
(* names of values.                                                        *)
(***************************************************************************)
backend_symbols(b) ==
    <<[name |-> b.module.ident, namespace |-> "type", cfg |-> b.module.cfg],
      [name |-> Last(b.reexport.path), namespace |-> "value", cfg |-> b.reexport.cfg]>>

client_symbols(c) ==
    [i \in 1..Len(c.struct_def) |->
        [name |-> c.struct_def[i].ident, namespace |-> "type", cfg |-> c.struct_def[i].cfg]]
    \o [i \in 1..Len(c.client_fns) |->
        [name |-> c.client_fns[i].ident, namespace |-> "value", cfg |-> c.client_fns[i].cfg]]

\* a build configuration: the crate feature and the target architecture
Configs == [backend : BOOLEAN, wasm32 : BOOLEAN]

\* whether an item under #[cfg(predicate)] is compiled in a build configuration
cfg_active(predicate, config) ==
    CASE predicate = "target_arch = \"wasm32\"" -> config.wasm32
      [] predicate = "feature = \"backend\"" -> config.backend
      [] predicate = "all(feature = \"backend\", not(target_arch = \"wasm32\"))" ->
            config.backend /\ ~config.wasm32

(***************************************************************************)
(* The generated client functions at run time.  The statements are the     *)
(* ones client.rs and types.rs quote; serde_wasm_bindgen, JsValue and      *)
(* crate::invoke are the ones of tests/client_integration.rs.              *)
(***************************************************************************)
\* serde_json::Value wrapped in JsValue
Null == [kind |-> "null", v |-> <<>>]
JsString(s) == [kind |-> "string", v |-> <<s>>]
JsBool(b) == [kind |-> "bool", v |-> <<b>>]
JsNumber(n) == [kind |-> "number", v |-> <<n>>]
JsObject(entries) == [kind |-> "object", v |-> entries]

\* Result<T, String>
Ok(x) == [ok |-> TRUE, value |-> <<x>>, message |-> "", detail |-> ""]
\* an error text; `detail` is the text a format string's {} was replaced with
Err(message, detail) == [ok |-> FALSE, value |-> <<>>, message |-> message, detail |-> detail]

\* the value of type () and of serde_json::Value::Null
Unit == [type |-> "()"]
ValueNull == [type |-> "serde_json::Value::Null"]
\* a name that is bound to no value
Unbound == [type |-> "unbound"]

\* JsValue::as_string and JsValue::as_bool, an Option
as_string(value) == IF value.kind = "string" THEN value.v ELSE <<>>
as_bool(value) == IF value.kind = "bool" THEN value.v ELSE <<>>

\* Option::ok_or_else(|| message.to_string())
ok_or_else(option, message) ==
    IF option # <<>> THEN Ok(option[1]) ELSE Err(message, "")

\* Result::map_err(|e| format!(format, e))
map_err(res, format) ==
    IF res.ok THEN res ELSE Err(format, res.message)

\* Serialize of one argument: the integer and text types always serialize, a type of
\* the user's crate serializes unless its Serialize implementation reports an error
serialize(value) ==
    IF value.type = "i32" THEN Ok(JsNumber(10 * value.of + value.at))
    ELSE IF value.type = "User"
         THEN IF value.serializable
              THEN Ok(JsObject(<<[key |-> "id", value |-> JsNumber(10 * value.of + value.at)]>>))
              ELSE Err("custom serialize error", "")
    ELSE IF value.type = "unbound" THEN Err("unbound", "")
    ELSE Ok(JsString(ToString(10 * value.of + value.at)))

\* serde_wasm_bindgen::to_value of the args record or of serde_json::Value::Null
to_value(value) ==
    IF value.type = "serde_json::Value::Null" THEN Ok(Null)
    ELSE LET fields == value.fields
             failed == {i \in 1..Len(fields) : ~serialize(fields[i].value).ok}
         IN  IF failed # {}
             THEN serialize(fields[CHOOSE i \in failed : \A j \in failed : i <= j].value)
             ELSE Ok(JsObject([i \in 1..Len(fields) |->
                        [key |-> fields[i].key, value |-> serialize(fields[i].value).value[1]]]))

\* serde_wasm_bindgen::from_value::<T>, T named by its text
from_value(type_str, value) ==
    LET accepted ==
            CASE type_str \in {"i8", "u8", "i16", "u16", "i32", "u32", "i64", "u64",
                               "isize", "usize"} -> {"number"}
              [] type_str = "User" -> {"object"}
              [] type_str = "Option < String >" -> {"null", "string"}
              [] type_str = "String" -> {"string"}
              [] type_str = "bool" -> {"bool"}
              [] type_str = "()" -> {"null"}
              [] OTHER -> {}
    IN  IF value.kind \in accepted
        THEN Ok([type |-> type_str, from |-> value])
        ELSE Err("invalid type", "")

\* crate::invoke: the call is logged and the next response, or null, is handed back
invoke(log, command, args_value, next_response) ==
    [calls |-> Append(log, [command |-> command, args |-> args_value]),
     value |-> IF next_response = <<>> THEN Null ELSE next_response[1]]

\* the value of a name in an environment (a sequence of bindings)
Lookup(env, ident) ==
    LET bound == {i \in 1..Len(env) : env[i].ident = ident}
    IN  IF bound = {} THEN Unbound
        ELSE env[CHOOSE i \in bound : \A j \in bound : i <= j].value

\* the parameters of a generated function bound to the values of a call
Bind(params, values) ==
    [i \in 1..Len(params) |->
        [ident |-> params[i][1],
         value |-> IF i <= Len(values) THEN values[i] ELSE Unbound]]

\* the generated function of a name
FnNamed(c, ident) ==
    c.client_fns[CHOOSE i \in 1..Len(c.client_fns) : c.client_fns[i].ident = ident]

\* R of the Result<R, String> a fallible function returns
OkType(output_tokens) == SubSeq(output_tokens, 3, Len(output_tokens) - 3)

\* the null value encoded whatever the parameters
args_value_null(call, env) == ValueNull

\* &ArgsStruct { field_inits } or &serde_json::Value::Null
args_value(call, env) ==
    IF call.value.kind = "struct"
    THEN [type |-> "struct", ident |-> call.value.ident,
          fields |-> [i \in 1..Len(call.value.inits) |->
                        [key |-> call.value.inits[i][1],
                         value |-> Lookup(env, call.value.inits[i][1])]]]
    ELSE ValueNull

\* the encoding statement with its error dropped
encode_args_unchecked(call, env) ==
    LET encoded == to_value(args_value(call, env))
    IN  IF encoded.ok THEN encoded ELSE Ok(Null)

\* let args = serde_wasm_bindgen::to_value(..).map_err(|e| format!(..))
encode_args(call, env) ==
    map_err(to_value(args_value(call, env)), call.encode_error)

\* the decode expression of the template, applied to `result`
try_deserialize(template, type_str, result) ==
    CASE template.expr = "result.as_string().ok_or_else" ->
            ok_or_else(as_string(result), template.message)
      [] template.expr = "Ok(())" -> Ok(Unit)
      [] template.expr = "result.as_bool().ok_or_else" ->
            ok_or_else(as_bool(result), template.message)
      [] template.expr = "serde_wasm_bindgen::from_value(result).map_err" ->
            map_err(from_value(type_str, result), template.message)

(***************************************************************************)
(* The runs                                                                *)
(***************************************************************************)
NoClient == [struct_def |-> <<>>, client_fns |-> <<>>]

NoItemFn == [vis |-> "", ident |-> <<>>, inputs |-> <<>>, output |-> ReturnDefault]

TypesIdle ==
    /\ ty = Named("str")
    /\ has_ref = FALSE
    /\ rewritten = NoTokens
    /\ rewritten2 = NoTokens

DecodeIdle ==
    /\ output = ReturnDefault
    /\ user_defined = FALSE
    /\ return_type = NoTokens
    /\ try_deserialize_expr = OkUnit

ClientIdle ==
    /\ input = NoItemFn
    /\ client = NoClient

NoBackend == [module |-> <<>>, reexport |-> <<>>]

BridgeIdle ==
    /\ backend = NoBackend
    /\ scope = <<>>

\* no generated function is being executed
NoFrame ==
    [pc |-> "idle", entry |-> "", fn |-> "", arguments |-> <<>>, env |-> <<>>,
     tries |-> 0, steps |-> <<>>, args |-> Null, no_response |-> FALSE,
     result |-> Null, ret |-> Ok(Unit), out |-> <<>>]

RunIdle ==
    /\ invocations = <<>>
    /\ calls = <<>>
    /\ dispatched = <<>>
    /\ frame = NoFrame

TypesInit ==
    /\ step = "parsed"
    /\ ty \in TypesUpTo(MaxDepth)
    /\ has_ref = FALSE
    /\ rewritten = NoTokens
    /\ rewritten2 = NoTokens
    /\ DecodeIdle
    /\ ClientIdle
    /\ BridgeIdle
    /\ RunIdle

Analyse ==
    /\ step = "parsed"
    /\ has_ref' = has_reference_type(ty)
    /\ step' = "analysed"
    /\ UNCHANGED <<ty, rewritten, rewritten2, decodeVars, clientVars, bridgeVars, runVars>>

Rewrite ==
    /\ step = "analysed"
    /\ rewritten' = transform_ref_to_lifetime(ty)
    /\ step' = "rewritten"
    /\ UNCHANGED <<ty, has_ref, rewritten2, decodeVars, clientVars, bridgeVars, runVars>>

RewriteAgain ==
    /\ step = "rewritten"
    /\ rewritten2' = transform_ref_to_lifetime(Parse(rewritten))
    /\ step' = "rewritten_again"
    /\ UNCHANGED <<ty, has_ref, rewritten, decodeVars, clientVars, bridgeVars, runVars>>

TypesNext == Analyse \/ Rewrite \/ RewriteAgain

TypesSpec == TypesInit /\ [][TypesNext]_vars

\* the names a declared return type is spelled with
PrimitiveNames ==
    {"String", "bool", "char",
     "i8", "u8", "i16", "u16", "i32", "u32", "i64", "u64", "i128", "u128",
     "isize", "usize", "f32", "f64"}

\* return types that are one name: a primitive or std type, or a type of the
\* user's crate (which may be spelled like a primitive)
NamedReturns ==
    {<<ReturnDeclared(Named(n)), u>> : n \in PrimitiveNames, u \in BOOLEAN}
    \cup {<<ReturnDeclared(Named("User")), TRUE>>,
          <<ReturnDeclared(Named("UserData")), TRUE>>}

\* return types with structure
StructuredReturns ==
    {<<ReturnDeclared(t), FALSE>> :
        t \in {Tuple(<<>>),
               Paren(Named("String")),
               Tuple(<<Named("String")>>),
               Tuple(<<Named("String"), Named("bool")>>),
               Reference("'static", FALSE, Named("str")),
               Path(FALSE, <<Segment("std"), Segment("string"), Segment("String")>>),
               Path(FALSE, <<GenericSegment("Vec", <<TypeArg(Named("User"))>>)>>),
               Path(FALSE, <<GenericSegment("Option", <<TypeArg(Named("String"))>>)>>),
               Path(FALSE, <<GenericSegment("Result",
                                <<TypeArg(Named("String")), TypeArg(Named("String"))>>)>>),
               Array(Named("u8"), "4")}}
    \cup {<<ReturnDeclared(Path(FALSE, <<Segment("model"), Segment("User")>>)), TRUE>>}

DecodeInit ==
    /\ step = "parsed"
    /\ \E r \in {<<ReturnDefault, FALSE>>} \cup NamedReturns \cup StructuredReturns :
          /\ output = r[1]
          /\ user_defined = r[2]
    /\ return_type = NoTokens
    /\ try_deserialize_expr = OkUnit
    /\ TypesIdle
    /\ ClientIdle
    /\ BridgeIdle
    /\ RunIdle

GetReturnType ==
    /\ step = "parsed"
    /\ return_type' = get_return_type(output)
    /\ step' = "typed"
    /\ UNCHANGED <<output, user_defined, try_deserialize_expr, typeVars, clientVars, bridgeVars, runVars>>

SelectDecode ==
    /\ step = "typed"
    /\ try_deserialize_expr' = generate_try_deserialize_expr(return_type)
    /\ step' = "selected"
    /\ UNCHANGED <<output, user_defined, return_type, typeVars, clientVars, bridgeVars, runVars>>

DecodeNext == GetReturnType \/ SelectDecode

DecodeSpec == DecodeInit /\ [][DecodeNext]_vars

\* the characters of a function name
Chars(name) ==
    CASE name = "greet" -> <<"g", "r", "e", "e", "t">>
      [] name = "get_user_data" ->
            <<"g", "e", "t", "_", "u", "s", "e", "r", "_", "d", "a", "t", "a">>
      [] name = "r#type" -> <<"r", "#", "t", "y", "p", "e">>
      [] name = "_1" -> <<"_", "1">>
      [] name = "try_greet" -> <<"t", "r", "y", "_", "g", "r", "e", "e", "t">>
      [] name = "get_userData" ->
            <<"g", "e", "t", "_", "u", "s", "e", "r", "D", "a", "t", "a">>

FnNames == {"greet", "get_user_data"}

\* the parameter types of the declarations
ParamTypes ==
    { Named("i32"),                                                   \* i32
      Reference(NoLifetime, FALSE, Named("str")),                     \* &str
      Reference("'static", FALSE, Named("str")),                      \* &'static str
      Path(FALSE, <<GenericSegment("Option",
            <<TypeArg(Reference(NoLifetime, FALSE, Named("str")))>>)>>), \* Option<&str>
      Tuple(<<Named("i32")>>),                                        \* (i32,)
      Ptr(Reference(NoLifetime, FALSE, Named("str"))) }               \* *const &str

\* the name of the parameter declared at each position
ParamIdents == <<"a", "b", "c", "d">>

\* the parameter lists of at most n parameters
RECURSIVE ParamLists(_)
ParamLists(n) ==
    IF n = 0 THEN {<<>>}
    ELSE LET shorter == ParamLists(n - 1)
         IN  shorter \cup
             {Append(l, Typed(p, t)) :
                l \in {s \in shorter : Len(s) = n - 1},
                p \in {PatIdent(ParamIdents[n]), PatWild},
                t \in ParamTypes}

ItemFns ==
    {[vis |-> v, ident |-> Chars(n), inputs |-> l, output |-> o] :
        v \in {"pub", ""}, n \in FnNames, l \in ParamLists(MaxParams),
        o \in {ReturnDefault, ReturnDeclared(Named("String"))}}

ClientInit ==
    /\ step = "parsed"
    /\ input \in ItemFns
    /\ client = NoClient
    /\ TypesIdle
    /\ DecodeIdle
    /\ BridgeIdle
    /\ RunIdle

GenerateClient ==
    /\ step = "parsed"
    /\ IF generate_client_panics(input)
       THEN step' = "panicked" /\ UNCHANGED client
       ELSE step' = "generated" /\ client' = generate_client(input)
    /\ UNCHANGED <<input, typeVars, decodeVars, bridgeVars, runVars>>

ClientNext == GenerateClient

ClientSpec == ClientInit /\ [][ClientNext]_vars

\* the parameter lists of at most n parameters, all bound to a name and of one type
SimpleParamLists(n) ==
    {[i \in 1..k |-> Typed(PatIdent(ParamIdents[i]), t)] :
        k \in 0..n,
        t \in {Named("i32"), Reference(NoLifetime, FALSE, Named("str")), Named("User")}}

\* the return types of the declarations handed to the whole macro
BridgeOutputs ==
    {ReturnDefault} \cup
    {ReturnDeclared(t) :
        t \in {Tuple(<<>>), Named("String"), Named("bool"), Named("i32"), Named("u8"),
               Named("User"),
               Path(FALSE, <<GenericSegment("Option", <<TypeArg(Named("String"))>>)>>),
               Path(FALSE, <<GenericSegment("Result",
                                <<TypeArg(Named("String")), TypeArg(Named("Error"))>>)>>)}}

\* the names of the declarations handed to the whole macro: a raw identifier and
\* a name that starts with an underscore and a digit are function names too
BridgeNames == FnNames \cup {"r#type", "_1"}

BridgeFns ==
    {[vis |-> v, asyncness |-> a, attrs |-> at, ident |-> Chars(n), generics |-> <<>>,
      inputs |-> l, output |-> o, where_clause |-> <<>>, block |-> <<"{", "body", "}">>] :
        v \in {"pub", "pub(crate)", ""}, a \in BOOLEAN,
        at \in {<<>>, <<"#[doc = \"Greets\"]">>, <<"#[doc = \"Greets\"]", "#[inline]">>},
        n \in BridgeNames,
        l \in SimpleParamLists(MaxParams), o \in BridgeOutputs}

BridgeInit ==
    /\ step = "parsed"
    /\ input \in BridgeFns
    /\ client = NoClient
    /\ BridgeIdle
    /\ TypesIdle
    /\ DecodeIdle
    /\ RunIdle

\* the macro: both generators run on the parsed function
TauriBridge ==
    /\ step = "parsed"
    /\ IF generate_backend_panics(input) \/ generate_client_panics(input)
       THEN /\ step' = "panicked"
            /\ UNCHANGED <<backend, client>>
       ELSE /\ step' = "expanded"
            /\ backend' = generate_backend(input)
            /\ client' = generate_client(input)
    /\ UNCHANGED <<input, scope, typeVars, decodeVars, runVars>>

BridgeNext == TauriBridge

BridgeSpec == BridgeInit /\ [][BridgeNext]_vars

(***************************************************************************)
(* Several annotated declarations in one enclosing scope: the compiler     *)
(* runs the macro on each, and the items it returns are declared there.    *)
(***************************************************************************)
\* number of annotated declarations in the enclosing scope
MaxDecls == 2

\* pairwise distinct function names
ScopeNames == {"greet", "try_greet", "get_user_data", "get_userData"}

ScopeFns ==
    {[vis |-> v, asyncness |-> FALSE, attrs |-> <<>>, ident |-> Chars(n),
      generics |-> <<>>, inputs |-> l, output |-> ReturnDeclared(Named("String")),
      where_clause |-> <<>>, block |-> <<"{", "body", "}">>] :
        v \in {"pub", ""}, n \in ScopeNames,
        l \in {<<>>, <<Typed(PatIdent(ParamIdents[1]), Named("i32"))>>}}

ScopeInit ==
    /\ step = "parsed"
    /\ scope = <<>>
    /\ backend = NoBackend
    /\ ClientIdle
    /\ TypesIdle
    /\ DecodeIdle
    /\ RunIdle

\* the macro runs on the next declaration, whose name no earlier one has, and what
\* it returns is declared in the scope
Expand ==
    /\ step \in {"parsed", "expanded"}
    /\ Len(scope) < MaxDecls
    /\ \E fn \in ScopeFns :
          /\ \A i \in 1..Len(scope) : scope[i].ident # fn.ident
          /\ ~generate_backend_panics(fn) /\ ~generate_client_panics(fn)
          /\ input' = fn
          /\ backend' = generate_backend(fn)
          /\ client' = generate_client(fn)
          /\ scope' = Append(scope,
                [ident |-> fn.ident, item |-> fn,
                 symbols |-> backend_symbols(generate_backend(fn))
                             \o client_symbols(generate_client(fn))])
    /\ step' = "expanded"
    /\ UNCHANGED <<typeVars, decodeVars, runVars>>

ScopeNext == Expand

ScopeSpec == ScopeInit /\ [][ScopeNext]_vars

\* number of calls made to the generated client functions in one run
MaxCalls == 2

\* the declarations whose generated client is executed
RunFns ==
    {fn \in BridgeFns :
        /\ fn.vis = "pub"
        /\ ~fn.asyncness
        /\ fn.attrs = <<>>
        /\ fn.ident = Chars("greet")
        /\ to_string(get_return_type(fn.output)) # "Result < String , Error >"}

\* what the dispatch boundary has to hand back: nothing, or a value
Responses ==
    {<<>>} \cup
    {<<v>> : v \in {Null, JsString("Hello"), JsBool(TRUE), JsNumber(42),
                    JsObject(<<[key |-> "id", value |-> JsNumber(1)]>>)}}

\* the values passed by the n-th call, one per parameter
Arguments(fn, n, s) ==
    [i \in 1..Len(fn.inputs) |->
        [type |-> to_string(ToTokens(fn.inputs[i].ty)), of |-> n, at |-> i,
         serializable |-> s]]

\* whether Serialize of the arguments can report an error
Serializability(fn) ==
    IF \E i \in 1..Len(fn.inputs) : fn.inputs[i].ty = Named("User")
    THEN BOOLEAN ELSE {TRUE}

\* the fallible function the frame is executing
TryFn == FnNamed(client, frame.fn)

RunInit ==
    /\ step = "compiled"
    /\ input \in RunFns
    /\ client = generate_client(input)
    /\ RunIdle
    /\ TypesIdle
    /\ DecodeIdle
    /\ BridgeIdle

\* a caller calls try_<name>
CallFallible ==
    /\ step = "compiled"
    /\ frame.pc \in {"idle", "returned"}
    /\ Len(invocations) < MaxCalls
    /\ \E s \in Serializability(input) :
          LET a == Arguments(input, Len(invocations) + 1, s)
              callee == client.client_fns[1]
          IN  /\ invocations' = Append(invocations, [entry |-> "try", arguments |-> a])
              /\ frame' = [NoFrame EXCEPT !.pc = "entered", !.entry = "try",
                                          !.fn = callee.ident, !.arguments = a,
                                          !.env = Bind(callee.inputs, a), !.tries = 1]
    /\ UNCHANGED <<step, calls, dispatched, typeVars, decodeVars, clientVars, bridgeVars>>

\* a caller calls <name>
CallConvenience ==
    /\ step = "compiled"
    /\ frame.pc \in {"idle", "returned"}
    /\ Len(invocations) < MaxCalls
    /\ \E s \in Serializability(input) :
          LET a == Arguments(input, Len(invocations) + 1, s)
              callee == client.client_fns[2]
          IN  /\ invocations' = Append(invocations, [entry |-> "plain", arguments |-> a])
              /\ frame' = [NoFrame EXCEPT !.pc = "called", !.entry = "plain",
                                          !.fn = callee.ident, !.arguments = a,
                                          !.env = Bind(callee.inputs, a)]
    /\ UNCHANGED <<step, calls, dispatched, typeVars, decodeVars, clientVars, bridgeVars>>

\* #try_fn_name(#(#arg_forwards),*) of the convenience function
Forward ==
    /\ frame.pc = "called"
    /\ LET body == FnNamed(client, frame.fn).body
           callee == FnNamed(client, body.callee)
           values == [i \in 1..Len(body.forwards) |-> Lookup(frame.env, body.forwards[i][1])]
       IN  frame' = [frame EXCEPT !.pc = "entered", !.fn = callee.ident,
                                  !.env = Bind(callee.inputs, values), !.tries = @ + 1]
    /\ UNCHANGED <<step, invocations, calls, dispatched,
                   typeVars, decodeVars, clientVars, bridgeVars>>

\* let args = serde_wasm_bindgen::to_value(..).map_err(..)?
Encode ==
    /\ frame.pc = "entered"
    /\ LET encoded == encode_args(TryFn.body.call, frame.env)
       IN  frame' = IF encoded.ok
                    THEN [frame EXCEPT !.pc = "encoded", !.args = encoded.value[1],
                                       !.steps = Append(@, "encode")]
                    ELSE [frame EXCEPT !.pc = "try_returned", !.ret = encoded,
                                       !.steps = Append(@, "encode")]
    /\ UNCHANGED <<step, invocations, calls, dispatched,
                   typeVars, decodeVars, clientVars, bridgeVars>>

\* let result = crate::invoke(#fn_name_str, args).await
Dispatch ==
    /\ frame.pc = "encoded"
    /\ \E next_response \in Responses :
          LET r == invoke(calls, TryFn.body.call.invoke, frame.args, next_response)
          IN  /\ calls' = r.calls
              /\ dispatched' = Append(dispatched, Len(invocations))
              /\ frame' = [frame EXCEPT !.pc = "dispatched", !.result = r.value,
                                         !.no_response = (next_response = <<>>),
                                         !.steps = Append(@, "dispatch")]
    /\ UNCHANGED <<step, invocations, typeVars, decodeVars, clientVars, bridgeVars>>

\* #try_deserialize_expr, the value of the fallible function
Decode ==
    /\ frame.pc = "dispatched"
    /\ frame' = [frame EXCEPT
                    !.pc = "try_returned",
                    !.ret = try_deserialize(TryFn.body.decode,
                                            to_string(OkType(TryFn.output)), frame.result),
                    !.steps = Append(@, "decode")]
    /\ UNCHANGED <<step, invocations, calls, dispatched,
                   typeVars, decodeVars, clientVars, bridgeVars>>

\* the fallible function returns to the caller that called it
Return ==
    /\ frame.pc = "try_returned"
    /\ frame.entry = "try"
    /\ frame' = [frame EXCEPT !.pc = "returned", !.out = <<frame.ret>>]
    /\ UNCHANGED <<step, invocations, calls, dispatched,
                   typeVars, decodeVars, clientVars, bridgeVars>>

\* .await.unwrap() of the convenience function
Unwrap ==
    /\ frame.pc = "try_returned"
    /\ frame.entry = "plain"
    /\ frame' = IF frame.ret.ok
                 THEN [frame EXCEPT !.pc = "returned", !.out = frame.ret.value]
                 ELSE [frame EXCEPT !.pc = "panicked"]
    /\ UNCHANGED <<step, invocations, calls, dispatched,
                   typeVars, decodeVars, clientVars, bridgeVars>>

RunNext ==
    \/ CallFallible
    \/ CallConvenience
    \/ Forward
    \/ Encode
    \/ Dispatch
    \/ Decode
    \/ Return
    \/ Unwrap

RunSpec == RunInit /\ [][RunNext]_vars

Spec == TypesSpec

(***************************************************************************)
(* Properties of the type analysis                                         *)
(***************************************************************************)
\* syn reads back what it prints
ParsePrintsBack == Parse(ToTokens(ty)) = ty

\* the types one followed edge below t: the generic type arguments of the last
\* path segment, tuple elements, the array, slice or parenthesized element
FollowedChildren(t) ==
    CASE t.variant = "Path" ->
            IF Len(t.segments) > 0 /\ Last(t.segments).angle
            THEN {Last(t.segments).args[i].ty[1] :
                    i \in {j \in 1..Len(Last(t.segments).args) :
                              Last(t.segments).args[j].kind = "Type"}}
            ELSE {}
      [] t.variant \in {"Tuple", "Array", "Slice", "Paren"} ->
            {t.elems[i] : i \in 1..Len(t.elems)}
      [] OTHER -> {}

RECURSIVE ReachableTypes(_)
\* t and every type reachable from t along followed edges
ReachableTypes(t) == {t} \cup UNION {ReachableTypes(c) : c \in FollowedChildren(t)}

\* the lifetime written after each & of a token stream, in order
AmpLifetimes(toks) ==
    LET amps == {i \in 1..Len(toks) : toks[i] = "&"}
        nth[n \in 1..Cardinality(amps)] ==
            CHOOSE i \in amps : Cardinality({j \in amps : j <= i}) = n
    IN  [n \in 1..Cardinality(amps) |->
            IF At(toks, nth[n] + 1) \in LifetimeTokens THEN toks[nth[n] + 1] ELSE NoLifetime]

\* the lifetime every rewritten reference is to carry
Tagged(lifetimes) ==
    [n \in 1..Len(lifetimes) |->
        IF lifetimes[n] = NoLifetime THEN "'a" ELSE lifetimes[n]]

Unreached == "unreached"

RECURSIVE ReachedLifetimes(_, _)
\* for each reference node of t, in the order of its & tokens: its lifetime if the
\* node is reached by following reference targets and followed edges, else Unreached
ReachedLifetimes(t, reached) ==
    LET inner(c, followed) == ReachedLifetimes(c, reached /\ followed)
        ofArgs(seg, followed) ==
            Concat([i \in 1..Len(seg.args) |->
                      IF seg.args[i].kind = "Type"
                      THEN inner(seg.args[i].ty[1], followed) ELSE <<>>])
    IN  CASE t.variant = "Reference" ->
                <<IF reached THEN t.lifetime ELSE Unreached>> \o inner(t.elems[1], TRUE)
          [] t.variant = "Path" ->
                Concat([s \in 1..Len(t.segments) |->
                          ofArgs(t.segments[s], s = Len(t.segments))])
          [] t.variant \in {"Tuple", "Array", "Slice", "Paren"} ->
                Concat([i \in 1..Len(t.elems) |-> inner(t.elems[i], TRUE)])
          [] OTHER -> Concat([i \in 1..Len(t.elems) |-> inner(t.elems[i], FALSE)])

\* t contains a reference at some depth
ContainsReference(t) == \E i \in 1..Len(ToTokens(t)) : ToTokens(t)[i] = "&"

\* C1: has_reference_type(t) is true exactly when t is a reference or a reference
\* is reachable from t along the generic type arguments of the last path segment,
\* tuple elements, the array, slice or parenthesized element; otherwise it is false.
C1_HasReferenceIffReachable ==
    step # "parsed" =>
        (has_ref <=> \E r \in ReachableTypes(ty) : r.variant = "Reference")

\* C1 witness: a reference found two followed edges down, none nearer
C1_Witness ==
    /\ step = "analysed"
    /\ has_ref
    /\ ty.variant # "Reference"
    /\ \A c \in FollowedChildren(ty) : c.variant # "Reference"

\* C2 as claimed: in the rewritten type every reference node that had no lifetime
\* carries 'a and every reference node that had one keeps it, at every nesting level.
C2_EveryReferenceTagged ==
    step = "rewritten" =>
        AmpLifetimes(rewritten) = Tagged(AmpLifetimes(ToTokens(ty)))

\* C2 amended: every reference node reached from t along reference targets and the
\* edges has_reference_type follows carries 'a if it had no lifetime and keeps its
\* lifetime if it had one.
C2_ReachedReferencesTagged ==
    step = "rewritten" =>
        LET want == ReachedLifetimes(ty, TRUE)
            got == AmpLifetimes(rewritten)
        IN  /\ Len(got) = Len(want)
            /\ \A n \in 1..Len(want) :
                  want[n] # Unreached =>
                      got[n] = IF want[n] = NoLifetime THEN "'a" ELSE want[n]

\* C2 witness: an untagged reference nested inside an explicitly tagged one
C2_Witness ==
    /\ step = "rewritten"
    /\ ty.variant = "Reference" /\ ty.lifetime = "'static"
    /\ ty.elems[1].variant = "Reference" /\ ty.elems[1].lifetime = NoLifetime

\* C3 as claimed: for a type with no reference at any depth has_reference_type is
\* false and transform_ref_to_lifetime returns the type unchanged.
C3_NoReferenceNoOp ==
    (step = "rewritten" /\ ~ContainsReference(ty)) =>
        (~has_ref /\ rewritten = ToTokens(ty))

\* C4: transforming the output of transform_ref_to_lifetime again yields that output.
C4_Idempotent ==
    step = "rewritten_again" => rewritten2 = rewritten

\* C4 witness: a second pass over a type the first pass changed
C4_Witness ==
    /\ step = "rewritten_again"
    /\ has_ref
    /\ rewritten # ToTokens(ty)
    /\ ty.variant = "Paren"

(***************************************************************************)
(* Properties of the generated client                                      *)
(***************************************************************************)
\* the record name the documentation and the tests give for a function name
DocumentedArgsName(chars) ==
    CASE Str(chars) = "greet" -> "GreetArgs"
      [] Str(chars) = "get_user_data" -> "GetUserDataArgs"

\* the type written in a field or parameter `pat : type`
TypeOf(field) == SubSeq(field, 3, Len(field))

\* the number of lifetime tokens of a token stream
LifetimeCount(toks) == Cardinality({i \in 1..Len(toks) : toks[i] \in LifetimeTokens})

\* the untagged references of t that the rewrite reaches carry 'a, the tagged ones
\* keep their lifetime
ReachedTagged(t, toks) ==
    LET want == ReachedLifetimes(t, TRUE)
        got == AmpLifetimes(toks)
    IN  /\ Len(got) = Len(want)
        /\ \A n \in 1..Len(want) :
              want[n] # Unreached =>
                  got[n] = IF want[n] = NoLifetime THEN "'a" ELSE want[n]

\* a reference is reachable from t along the edges has_reference_type follows
ReferenceReachable(t) == \E r \in ReachableTypes(t) : r.variant = "Reference"

\* C5: the args record <PascalCase(name)>Args is synthesized iff the function has at
\* least one parameter, and then has exactly one field per parameter, in order.
C5_RecordIffParameters ==
    step = "generated" =>
        /\ (client.struct_def # <<>>) <=> (Len(input.inputs) >= 1)
        /\ client.struct_def # <<>> =>
              LET record == client.struct_def[1]
              IN  /\ Len(client.struct_def) = 1
                  /\ record.ident = DocumentedArgsName(input.ident)
                  /\ Len(record.fields) = Len(input.inputs)
                  /\ \A i \in 1..Len(input.inputs) :
                        /\ record.fields[i][1] = input.inputs[i].pat.ident
                        /\ TypeOf(record.fields[i]) \in
                              {ToTokens(input.inputs[i].ty),
                               transform_ref_to_lifetime(input.inputs[i].ty)}

\* C5 witness: a record synthesized for two parameters of different types
C5_Witness ==
    /\ step = "generated"
    /\ Len(input.inputs) = 2
    /\ input.inputs[1].ty # input.inputs[2].ty
    /\ Len(client.struct_def) = 1

DeclaresLifetime(c) ==
    /\ \A i \in 1..Len(c.struct_def) : c.struct_def[i].generics = <<"'a">>
    /\ \A i \in 1..Len(c.client_fns) : c.client_fns[i].generics = <<"'a">>
DeclaresNoLifetime(c) ==
    /\ \A i \in 1..Len(c.struct_def) : c.struct_def[i].generics = <<>>
    /\ \A i \in 1..Len(c.client_fns) : c.client_fns[i].generics = <<>>

\* every field and parameter type is the declared type, token for token
EmittedUnchanged(fn, c) ==
    /\ \A r \in 1..Len(c.struct_def) : \A i \in 1..Len(fn.inputs) :
          TypeOf(c.struct_def[r].fields[i]) = ToTokens(fn.inputs[i].ty)
    /\ \A f \in 1..Len(c.client_fns) : \A i \in 1..Len(fn.inputs) :
          TypeOf(c.client_fns[f].inputs[i]) = ToTokens(fn.inputs[i].ty)

\* C7 as claimed: the record and both client functions declare 'a iff some parameter
\* type contains a reference anywhere; with no reference in any parameter type there
\* is no lifetime parameter and every field and parameter type is emitted unchanged.
C7_LifetimeIffAnyReference ==
    step = "generated" =>
        LET any == \E i \in 1..Len(input.inputs) : ContainsReference(input.inputs[i].ty)
        IN  /\ any => DeclaresLifetime(client)
            /\ ~any => DeclaresNoLifetime(client) /\ EmittedUnchanged(input, client)

\* C7 amended: the record and both client functions declare 'a iff has_reference_type
\* finds a reference in some parameter type (one reachable along the edges it
\* follows); when it finds none there is no lifetime parameter and every field and
\* parameter type is emitted unchanged.
C7_LifetimeIffReachableReference ==
    step = "generated" =>
        LET any == \E i \in 1..Len(input.inputs) : ReferenceReachable(input.inputs[i].ty)
        IN  /\ any => DeclaresLifetime(client)
            /\ ~any => DeclaresNoLifetime(client) /\ EmittedUnchanged(input, client)

\* C7 witness: no reference is found and a one-element tuple is emitted as declared
C7_Witness ==
    /\ step = "generated"
    /\ Len(input.inputs) = 2
    /\ \A i \in 1..2 : ~ReferenceReachable(input.inputs[i].ty)
    /\ input.inputs[2].ty = Tuple(<<Named("i32")>>)
    /\ client.struct_def[1].generics = <<>>

\* C8 as claimed: for n parameters the record has n fields, the client functions n
\* parameters, the record construction n initializers and the convenience function
\* forwards n arguments, and position i of each list names the i-th parameter.
C8_OrderPreservedEverywhere ==
    step = "generated" =>
        LET n == Len(input.inputs)
            named(list) ==
                /\ Len(list) = n
                /\ \A i \in 1..n : list[i][1] = input.inputs[i].pat.ident
        IN  /\ \A r \in 1..Len(client.struct_def) : named(client.struct_def[r].fields)
            /\ \A f \in 1..Len(client.client_fns) : named(client.client_fns[f].inputs)
            /\ n >= 1 => named(client.client_fns[1].body.call.value.inits)
            /\ named(client.client_fns[2].body.forwards)

(***************************************************************************)
(* Properties of the decode template                                       *)
(***************************************************************************)
Templates == {StringAccessor, OkUnit, BoolAccessor, NumberDecode, ResponseDecode}

\* the declared return type is the one-name type `name`
ReturnsNamed(name) == output = ReturnDeclared(Named(name))

\* the declared return type is absent or ()
ReturnsUnit == output \in {ReturnDefault, ReturnDeclared(Tuple(<<>>))}

\* C9 as claimed: one template for every return type: the string accessor for
\* String, Ok(()) for the unit or absent return type, the bool accessor for bool, the
\* generic decode with the generic message for a user-defined type.
C9_TemplatePerType ==
    step = "selected" =>
        /\ try_deserialize_expr \in Templates
        /\ (ReturnsNamed("String") /\ ~user_defined) => try_deserialize_expr = StringAccessor
        /\ ReturnsUnit => try_deserialize_expr = OkUnit
        /\ (ReturnsNamed("bool") /\ ~user_defined) => try_deserialize_expr = BoolAccessor
        /\ user_defined => try_deserialize_expr = ResponseDecode

\* the texts the dispatch compares the return type with
MatchedTexts == {"String", "()", "bool"} \cup NumericNames

\* C9 amended: one template for every return type: the string accessor for the text
\* String, Ok(()) for the unit or absent return type, the bool accessor for the text
\* bool, and the generic decode with the generic message for a user-defined type
\* whose text is none of the texts the dispatch matches.
C9_TemplatePerText ==
    step = "selected" =>
        /\ try_deserialize_expr \in Templates
        /\ ReturnsNamed("String") => try_deserialize_expr = StringAccessor
        /\ ReturnsUnit => try_deserialize_expr = OkUnit
        /\ ReturnsNamed("bool") => try_deserialize_expr = BoolAccessor
        /\ (user_defined /\ \A n \in MatchedTexts : ~ReturnsNamed(n)) =>
              try_deserialize_expr = ResponseDecode

\* C9 witness: a user-defined type reached through a module path
C9_Witness ==
    /\ step = "selected"
    /\ user_defined
    /\ output = ReturnDeclared(Path(FALSE, <<Segment("model"), Segment("User")>>))
    /\ try_deserialize_expr = ResponseDecode

\* the fixed-width integer and floating-point types
NumericTypes ==
    {"i8", "u8", "i16", "u16", "i32", "u32", "i64", "u64", "i128", "u128",
     "isize", "usize", "f32", "f64"}

\* C10 as claimed: for every integer or floating-point return type the template is
\* the generic decode whose message is "Failed to deserialize number".
C10_NumberMessageForEveryWidth ==
    (step = "selected" /\ ~user_defined /\ \E n \in NumericTypes : ReturnsNamed(n)) =>
        try_deserialize_expr = NumberDecode

(***************************************************************************)
(* Properties of the generated client functions at run time                *)
(***************************************************************************)
\* the elements of a sequence
Range(seq) == {seq[i] : i \in 1..Len(seq)}

\* whether every argument of a call can be serialized
Serializable(arguments) == \A i \in 1..Len(arguments) : serialize(arguments[i]).ok

\* the fallible function has returned to whoever called it
TryReturned == frame.pc \in {"try_returned", "returned", "panicked"}

\* the statements of the fallible function, in the order client.rs writes them
StatementOrder == <<"encode", "dispatch", "decode">>

\* C11: every invocation of the fallible function runs encode, dispatch, decode in
\* that order; once its encoding has succeeded it dispatches exactly once, under the
\* declared name of the function and never under try_<name>; the logged dispatches
\* are in the order of the invocations, one for each invocation that encoded.
C11_DispatchOncePerInvocationInOrder ==
    step = "compiled" =>
        /\ Len(frame.steps) <= Len(StatementOrder)
        /\ \A i \in 1..Len(frame.steps) : frame.steps[i] = StatementOrder[i]
        /\ \A k \in 1..Len(calls) :
              /\ calls[k].command = Str(input.ident)
              /\ calls[k].command # "try_" \o Str(input.ident)
        /\ Len(dispatched) = Len(calls)
        /\ \A j, k \in 1..Len(dispatched) : j < k => dispatched[j] < dispatched[k]
        /\ \A n \in 1..Len(invocations) :
              IF n < Len(invocations) \/ TryReturned
              THEN (n \in Range(dispatched)) <=> Serializable(invocations[n].arguments)
              ELSE (n \in Range(dispatched)) <=> frame.pc = "dispatched"
        /\ TryReturned =>
              frame.steps = IF Serializable(frame.arguments)
                            THEN StatementOrder ELSE <<"encode">>

\* C11 witness: two invocations have each dispatched once, the second has returned
C11_Witness ==
    /\ step = "compiled"
    /\ Len(invocations) = 2
    /\ dispatched = <<1, 2>>
    /\ frame.pc = "returned"
    /\ frame.steps = StatementOrder

\* C12: when encoding the arguments fails the fallible function returns Err with the
\* message "Failed to serialize arguments: ...", it returns rather than stops, and
\* it has neither dispatched nor decoded.
C12_EncodingFailureIsErr ==
    (step = "compiled" /\ TryReturned /\ ~Serializable(frame.arguments)) =>
        /\ ~frame.ret.ok
        /\ frame.ret.message = "Failed to serialize arguments: {}"
        /\ frame.ret.detail = "custom serialize error"
        /\ frame.steps = <<"encode">>
        /\ Len(invocations) \notin Range(dispatched)
        /\ frame.entry = "try" => frame.pc \in {"try_returned", "returned"}
        /\ (frame.entry = "try" /\ frame.pc = "returned") => frame.out = <<frame.ret>>

\* C12 witness: try_<name> was called with an argument that does not serialize and
\* has returned
C12_Witness ==
    /\ step = "compiled"
    /\ frame.entry = "try"
    /\ frame.pc = "returned"
    /\ ~Serializable(frame.arguments)
    /\ ~frame.ret.ok

\* C13 as claimed: when the dispatch fails (the boundary has no response for the
\* call) or the decode fails, the fallible function returns Err, whatever the return
\* type, and the call was dispatched once only.
C13_DispatchFailureIsErr ==
    (step = "compiled" /\ TryReturned /\ Serializable(frame.arguments)) =>
        /\ frame.no_response => ~frame.ret.ok
        /\ Cardinality({k \in 1..Len(dispatched) : dispatched[k] = Len(invocations)}) = 1

\* the declared function returns nothing, or ()
ReturnsNothing(fn) ==
    fn.output.kind = "Default" \/ fn.output = ReturnDeclared(Tuple(<<>>))

\* C14: for a function without a return type, or returning (), the fallible function
\* is declared to return Result<(), String> and, once the arguments are encoded,
\* returns Ok(()) whatever the dispatch handed back.
C14_UnitAlwaysOk ==
    (step = "compiled" /\ ReturnsNothing(input)) =>
        /\ client.client_fns[1].output = <<"Result", "<", "(", ")", ",", "String", ">">>
        /\ (TryReturned /\ Serializable(frame.arguments)) => frame.ret = Ok(Unit)

\* C14 witness: a function without a return type whose dispatch handed back a text
C14_Witness ==
    /\ step = "compiled"
    /\ input.output.kind = "Default"
    /\ frame.pc = "returned"
    /\ frame.entry = "try"
    /\ frame.result = JsString("Hello")
    /\ frame.ret = Ok(Unit)

\* the text of the declared return type
ReturnText(fn) == to_string(get_return_type(fn.output))

\* whether a dispatched result has the form the return type expects
ExpectedForm(type_str, value) ==
    CASE type_str = "String" -> value.kind = "string"
      [] type_str = "bool" -> value.kind = "bool"
      [] type_str \in NumericTypes -> value.kind = "number"
      [] type_str = "()" -> TRUE
      [] type_str = "User" -> value.kind = "object"
      [] type_str = "Option < String >" -> value.kind \in {"null", "string"}

\* the message the claim gives to a return type
ExpectedMessage(type_str) ==
    CASE type_str = "String" -> "Expected string response"
      [] type_str = "bool" -> "Expected bool response"
      [] type_str \in NumericTypes -> "Failed to deserialize number: {}"
      [] OTHER -> "Failed to deserialize response: {}"

\* C15 as claimed: the decode step returns Ok exactly when the dispatched result has
\* the expected form, and otherwise Err with "Expected string response" for String,
\* "Expected bool response" for bool, "Failed to deserialize number" for a numeric
\* return type and "Failed to deserialize response" for every other return type.
C15_DecodeMessagePerReturnType ==
    (step = "compiled" /\ TryReturned /\ Serializable(frame.arguments)) =>
        /\ frame.ret.ok <=> ExpectedForm(ReturnText(input), frame.result)
        /\ ~frame.ret.ok => frame.ret.message = ExpectedMessage(ReturnText(input))

\* C16: the convenience function has the parameter list of the fallible function,
\* calls it once with its arguments in declaration order, returns the contained
\* value when the result is Ok and panics exactly when it is Err.
C16_ConvenienceForwardsAndUnwraps ==
    step = "compiled" =>
        /\ client.client_fns[2].inputs = client.client_fns[1].inputs
        /\ frame.entry = "plain" =>
              /\ frame.tries = IF frame.pc = "called" THEN 0 ELSE 1
              /\ frame.pc # "called" =>
                    /\ frame.fn = "try_" \o Str(input.ident)
                    /\ Len(frame.env) = Len(frame.arguments)
                    /\ \A i \in 1..Len(frame.env) :
                          /\ frame.env[i].ident = input.inputs[i].pat.ident
                          /\ frame.env[i].value = frame.arguments[i]
              /\ frame.pc = "returned" => frame.ret.ok /\ frame.out = frame.ret.value
              /\ frame.pc = "panicked" => ~frame.ret.ok
              /\ TryReturned => frame.pc \in
                    (IF frame.ret.ok THEN {"try_returned", "returned"}
                                     ELSE {"try_returned", "panicked"})

\* C16 witness: the convenience function of a two-parameter function panicked on the
\* Err the fallible function returned
C16_Witness ==
    /\ step = "compiled"
    /\ frame.entry = "plain"
    /\ Len(frame.arguments) = 2
    /\ frame.pc = "panicked"
    /\ frame.tries = 1

\* the payload the claim describes: an entry per parameter keyed by its name, or null;
\* an argument that does not serialize has no entry any payload could hold
ExpectedPayload(fn, arguments) ==
    IF fn.inputs = <<>> THEN Null
    ELSE JsObject([i \in 1..Len(fn.inputs) |->
            [key |-> fn.inputs[i].pat.ident,
             value |-> LET encoded == serialize(arguments[i])
                       IN  IF encoded.ok THEN encoded.value[1] ELSE Unbound]])

\* C17: the payload the fallible function encodes and sends is the args record of
\* the call's arguments, one entry per parameter keyed by the parameter's name, and
\* the null payload when the function has no parameters.
C17_PayloadIsArgsRecordOrNull ==
    step = "compiled" =>
        /\ frame.pc \in {"encoded", "dispatched"} \/ (TryReturned /\ frame.ret.ok) =>
              frame.args = ExpectedPayload(input, frame.arguments)
        /\ \A k \in 1..Len(calls) :
              calls[k].args = ExpectedPayload(input, invocations[dispatched[k]].arguments)

\* C17 witness: a record of two entries was sent
C17_Witness ==
    /\ step = "compiled"
    /\ Len(calls) >= 1
    /\ calls[1].args.kind = "object"
    /\ Len(calls[1].args.v) = 2

(***************************************************************************)
(* Properties of the two generated artifacts                               *)
(***************************************************************************)
\* the tokens of the declared return type, () when there is none
DeclaredReturn(fn) ==
    IF fn.output.kind = "Default" THEN <<"(", ")">> ELSE ToTokens(fn.output.ty[1])

\* C18: the fallible function returns Result<R, String> with R the declared return
\* type as written (() when none is declared), a declared Result<T, E> included,
\* which is wrapped and not flattened; the convenience function returns R.
C18_ReturnTypeWrappedOnce ==
    step = "expanded" =>
        /\ client.client_fns[1].output =
              <<"Result", "<">> \o DeclaredReturn(input) \o <<",", "String", ">">>
        /\ client.client_fns[2].output = DeclaredReturn(input)

\* C18 witness: a function declared to return Result<String, Error>
C18_Witness ==
    /\ step = "expanded"
    /\ DeclaredReturn(input) = <<"Result", "<", "String", ",", "Error", ">">>
    /\ client.client_fns[1].output =
          <<"Result", "<", "Result", "<", "String", ",", "Error", ">", ",", "String", ">">>

\* the visibility written on the items of the server wrapper and on the client
\* functions
FunctionVisibilities ==
    {backend.module.items[i].vis : i \in 1..Len(backend.module.items)}
    \cup {backend.reexport.vis}
    \cup {client.client_fns[i].vis : i \in 1..Len(client.client_fns)}

\* the visibility written on the args record
RecordVisibilities == {client.struct_def[i].vis : i \in 1..Len(client.struct_def)}

\* C19 as claimed: the server wrapper, the args record, the fallible function and
\* the convenience function all carry the visibility of the original function.
C19_VisibilityOnEveryArtifact ==
    step = "expanded" =>
        \A v \in FunctionVisibilities \cup RecordVisibilities :
            /\ v = input.vis
            /\ v = "pub" <=> input.vis = "pub"

\* C19 amended: the server wrapper (the command function and its re-export), the
\* fallible function and the convenience function carry the visibility of the
\* original function; the args record is written without a visibility, so it is
\* private whatever the original function's visibility.
C19_VisibilityOnFunctions ==
    step = "expanded" =>
        /\ \A v \in FunctionVisibilities :
              /\ v = input.vis
              /\ v = "pub" <=> input.vis = "pub"
        /\ \A v \in RecordVisibilities : v = ""

\* C19 witness: a public function with parameters
C19_Witness ==
    /\ step = "expanded"
    /\ input.vis = "pub"
    /\ RecordVisibilities = {""}
    /\ FunctionVisibilities = {"pub"}

\* C20: the command function of the server wrapper is async exactly when the
\* original function is; both client functions are async in either case.
C20_AsyncnessPerTarget ==
    step = "expanded" =>
        /\ \A i \in 1..Len(backend.module.items) :
              backend.module.items[i].asyncness = input.asyncness
        /\ Len(client.client_fns) = 2
        /\ \A i \in 1..Len(client.client_fns) : client.client_fns[i].asyncness

\* C20 witness: a function that is not async
C20_Witness ==
    /\ step = "expanded"
    /\ ~input.asyncness
    /\ ~backend.module.items[1].asyncness
    /\ client.client_fns[1].asyncness
    /\ client.client_fns[2].asyncness

\* the attributes written on an item of the client artifact
ClientAttributes(item) ==
    <<"#[cfg(" \o item.cfg \o ")]">> \o
    (IF "derive" \in DOMAIN item THEN <<"#[derive(serde::Serialize, serde::Deserialize)]">>
     ELSE <<>>)

\* C21: the attributes of the original function are written on the command function
\* of the server artifact, as they are and in their order, followed only by the
\* #[tauri::command] that belongs to the re-emitted function; no item of the client
\* artifact carries any of them.
C21_AttributesOnServerOnly ==
    step = "expanded" =>
        /\ Len(backend.module.items) = 1
        /\ backend.module.items[1].attrs = input.attrs \o <<"#[tauri::command]">>
        /\ \A a \in Range(input.attrs) :
              /\ \A i \in 1..Len(client.struct_def) :
                    a \notin Range(ClientAttributes(client.struct_def[i]))
              /\ \A i \in 1..Len(client.client_fns) :
                    a \notin Range(ClientAttributes(client.client_fns[i]))

\* C21 witness: a function with two attributes and parameters
C21_Witness ==
    /\ step = "expanded"
    /\ Len(input.attrs) = 2
    /\ client.struct_def # <<>>
    /\ backend.module.items[1].attrs[2] = "#[inline]"

\* the names the server artifact declares in the enclosing module
ServerNames == {backend_symbols(backend)[i].name : i \in 1..Len(backend_symbols(backend))}

\* C22 as claimed: the only name the server artifact adds to the enclosing scope is
\* the name of the original function.
C22_OnlyFunctionNameAdded ==
    step = "expanded" => ServerNames = {Str(input.ident)}

\* C22 amended: the server artifact adds two names to the enclosing scope, the name
\* of the original function (re-exported) and the wrapper module __tauri_cmd_<name>;
\* the command function itself is an item of that module.
C22_FunctionAndModuleNameAdded ==
    step = "expanded" =>
        /\ ServerNames = {Str(input.ident), "__tauri_cmd_" \o Str(input.ident)}
        /\ backend.reexport.path = <<"__tauri_cmd_" \o Str(input.ident), Str(input.ident)>>
        /\ \A i \in 1..Len(backend.module.items) :
              backend.module.items[i].ident = Str(input.ident)

\* C22 witness: the wrapper of get_user_data
C22_Witness ==
    /\ step = "expanded"
    /\ ServerNames = {"get_user_data", "__tauri_cmd_get_user_data"}

\* C23 as claimed: for every well-formed declaration generate_backend and
\* generate_client both complete, neither panics.
C23_GenerationNeverPanics ==
    step # "panicked"

\* C24: whatever the rest of the declaration, the fallible function is named try_
\* followed by the function name, the convenience function is named the function
\* name, and the args record is named the Pascal case of the function name followed
\* by Args (get_user_data gives GetUserDataArgs).
C24_NamesFromFunctionName ==
    step = "expanded" =>
        /\ client.client_fns[1].ident = "try_" \o Str(input.ident)
        /\ client.client_fns[2].ident = Str(input.ident)
        /\ \A i \in 1..Len(client.struct_def) :
              client.struct_def[i].ident = DocumentedArgsName(input.ident)

\* C24 witness: get_user_data with parameters
C24_Witness ==
    /\ step = "expanded"
    /\ Str(input.ident) = "get_user_data"
    /\ Len(client.struct_def) = 1
    /\ client.struct_def[1].ident = "GetUserDataArgs"
    /\ client.client_fns[1].ident = "try_get_user_data"

\* C25 as claimed: the client functions generated for a function f are the async
\* functions try_call_f, returning Result<T, String>, and call_f, which unwraps it.
C25_DocumentedClientNames ==
    step = "expanded" =>
        /\ client.client_fns[1].ident = "try_call_" \o Str(input.ident)
        /\ client.client_fns[1].asyncness
        /\ client.client_fns[1].output =
              <<"Result", "<">> \o DeclaredReturn(input) \o <<",", "String", ">">>
        /\ client.client_fns[2].ident = "call_" \o Str(input.ident)
        /\ client.client_fns[2].asyncness
        /\ client.client_fns[2].body.unwrap

\* u is t up to the lifetimes of the references t leaves untagged
RECURSIVE Mirrors(_, _)
Mirrors(t, u) ==
    /\ u.variant = t.variant
    /\ u.mutability = t.mutability
    /\ u.leading_colon = t.leading_colon
    /\ u.len = t.len
    /\ (t.variant = "Reference" /\ t.lifetime = NoLifetime) \/ u.lifetime = t.lifetime
    /\ Len(u.elems) = Len(t.elems)
    /\ \A i \in 1..Len(t.elems) : Mirrors(t.elems[i], u.elems[i])
    /\ Len(u.segments) = Len(t.segments)
    /\ \A i \in 1..Len(t.segments) :
          /\ u.segments[i].ident = t.segments[i].ident
          /\ u.segments[i].angle = t.segments[i].angle
          /\ Len(u.segments[i].args) = Len(t.segments[i].args)
          /\ \A j \in 1..Len(t.segments[i].args) :
                LET a == t.segments[i].args[j]
                    b == u.segments[i].args[j]
                IN  /\ b.kind = a.kind
                    /\ b.lifetime = a.lifetime
                    /\ Len(b.ty) = Len(a.ty)
                    /\ a.kind = "Type" => Mirrors(a.ty[1], b.ty[1])

\* a path none of whose segments has generic arguments
NamedWithoutArguments(t) ==
    t.variant = "Path" /\ \A i \in 1..Len(t.segments) : ~t.segments[i].angle

\* C26 as claimed: the output of transform_ref_to_lifetime reads back as the input
\* with only the lifetimes of untagged references changed (same shape, mutability,
\* path prefix, generic arguments, tuple arity, array length), and a named type
\* without generic arguments comes back unchanged.
C26_OutputMirrorsInput ==
    step = "rewritten" =>
        /\ Mirrors(ty, Parse(rewritten))
        /\ NamedWithoutArguments(ty) => rewritten = ToTokens(ty)

\* the tokens with white space written at the gaps, gap 0 being the front
Spaced(toks, gaps) ==
    Concat([i \in 1..(Len(toks) + 1) |->
              (IF (i - 1) \in gaps THEN <<" ">> ELSE <<>>)
              \o (IF i <= Len(toks) THEN <<toks[i]>> ELSE <<>>)])

\* every way of writing the declared return type that differs in white space only
SourceTexts ==
    LET toks == IF output.kind = "Default" THEN <<>>
                ELSE <<"->">> \o ToTokens(output.ty[1])
    IN  {Spaced(toks, gaps) : gaps \in SUBSET (0..Len(toks))}

\* C27: the decode template is chosen by the text of the return type: every way of
\* writing the return type that differs in white space only gets the same template,
\* and a type whose text is exactly String or bool gets the accessor template, also
\* when it is a user-defined type.
C27_DispatchOnText ==
    step = "selected" =>
        /\ \A source \in SourceTexts :
              generate_try_deserialize_expr(get_return_type(parse_ReturnType(Lex(source))))
                  = try_deserialize_expr
        /\ to_string(return_type) = "String" => try_deserialize_expr = StringAccessor
        /\ to_string(return_type) = "bool" => try_deserialize_expr = BoolAccessor

\* C27 witness: a user-defined type named bool, written with white space around it
C27_Witness ==
    /\ step = "selected"
    /\ user_defined
    /\ output = ReturnDeclared(Named("bool"))
    /\ <<" ", "->", " ", "bool", " ">> \in SourceTexts
    /\ try_deserialize_expr = BoolAccessor

\* two symbols that cannot both be declared in one scope
Collide(s, t) ==
    s.name = t.name /\ s.namespace = t.namespace /\ s.cfg = t.cfg

\* C28 as claimed: the symbols generated for declarations with pairwise distinct
\* function names never collide: no symbol of one declaration has the name, the
\* namespace and the build condition of a symbol of another declaration.
C28_NoCollisionAcrossDeclarations ==
    \A i, j \in 1..Len(scope) :
        i # j =>
            \A m \in 1..Len(scope[i].symbols), n \in 1..Len(scope[j].symbols) :
                ~Collide(scope[i].symbols[m], scope[j].symbols[n])

\* some field type of the record names the lifetime 'a
UsesLifetime(record) ==
    \E i \in 1..Len(record.fields) :
        \E k \in 1..Len(TypeOf(record.fields[i])) : TypeOf(record.fields[i])[k] = "'a"

\* C29 as claimed: whenever the args record declares the lifetime parameter 'a, at
\* least one of its field types uses 'a, also when every reference in the parameters
\* already carries an explicit lifetime such as 'static.
C29_DeclaredLifetimeIsUsed ==
    step = "generated" =>
        \A r \in 1..Len(client.struct_def) :
            client.struct_def[r].generics = <<"'a">> => UsesLifetime(client.struct_def[r])

\* the symbols the macro declares in the enclosing scope for the declaration
DeclaredSymbols == backend_symbols(backend) \o client_symbols(client)

\* the definitions of the function's name that are compiled in a configuration
ActiveDefinitions(config) ==
    {i \in 1..Len(DeclaredSymbols) :
        /\ DeclaredSymbols[i].name = Str(input.ident)
        /\ cfg_active(DeclaredSymbols[i].cfg, config)}

\* C30: in every build configuration at most one definition of the function's name
\* is compiled: the server wrapper and its re-export only with the backend feature on
\* a target other than wasm32, the args record and both client functions only on
\* wasm32.
C30_OneDefinitionPerConfiguration ==
    step = "expanded" =>
        \A config \in Configs :
            /\ Cardinality(ActiveDefinitions(config)) <= 1
            /\ \A i \in 1..Len(backend_symbols(backend)) :
                  cfg_active(backend_symbols(backend)[i].cfg, config)
                      => (config.backend /\ ~config.wasm32)
            /\ \A i \in 1..Len(client_symbols(client)) :
                  cfg_active(client_symbols(client)[i].cfg, config) => config.wasm32

\* C30 witness: greet with a parameter has its server definition alone with the
\* backend feature off wasm32, its client definition alone on wasm32 with the feature
\* on, and none without the feature off wasm32
C30_Witness ==
    /\ step = "expanded"
    /\ input.ident = Chars("greet")
    /\ Len(client.struct_def) = 1
    /\ ActiveDefinitions([backend |-> TRUE, wasm32 |-> FALSE]) = {2}
    /\ ActiveDefinitions([backend |-> TRUE, wasm32 |-> TRUE]) = {Len(DeclaredSymbols)}
    /\ ActiveDefinitions([backend |-> FALSE, wasm32 |-> FALSE]) = {}
====
